---------------------------- MODULE Spec2Model ----------------------------
(***************************************************************************)
(* Model of streamlit_app_vP.py: the message store (SQLite table           *)
(* "messages") with its ownership-checked edit and delete, and the         *)
(* date-question mapping kept in a JSON file.                              *)
(*                                                                         *)
(* Every Streamlit session runs the script in its own thread, so the       *)
(* store functions are called by concurrent sessions.  A function that     *)
(* issues several statements (SELECT, then UPDATE or DELETE) is one action *)
(* per statement; a function that issues one statement is one action.      *)
(***************************************************************************)
EXTENDS Integers, Sequences, FiniteSets, TLC

(* ------------------------------ bounds --------------------------------- *)

\* Number of INSERTs a behaviour performs.
MaxMsgs == 2
\* Number of times the wall clock advances in a behaviour.
MaxTicks == 1
\* Largest number of questions the question source holds.
MaxPool == 3
\* Largest number of characters of a text typed or passed as a body.
MaxText == 2
\* The first and the last of the years a mapping is generated in.
FirstYear == 1890
LastYear == 2110

(* ----------------------------- constants ------------------------------- *)

USER_A == "User 1"
USER_B == "User 2"
Users == {USER_A, USER_B}

\* The concurrent sessions (script runs) calling into the store.
Procs == {1, 2}

\* Python's None, the value of an absent argument or of an empty fetchone().
None == "None"

\* An absent chat_date_str or selected_date (None; the code tests truthiness).
NoDate == <<>>

\* Message bodies handed to the store.
Bodies == {"hello", "x"}

\* The characters of a text: a whitespace character and a letter.
Chars == {" ", "a"}

\* The characters str.strip() removes.
Whitespace == {" "}

\* The texts a user may type or a caller may pass, as sequences of characters.
Texts == UNION {[1..n -> Chars] : n \in 0..MaxText}

\* The str made of the characters of a text.
RECURSIVE Join(_)
Join(text) == IF text = <<>> THEN "" ELSE Head(text) \o Join(Tail(text))

\* str.lstrip(): the text without its leading whitespace.
RECURSIVE lstrip(_)
lstrip(text) ==
    IF text # <<>> /\ Head(text) \in Whitespace THEN lstrip(Tail(text)) ELSE text

\* str.rstrip(): the text without its trailing whitespace.
RECURSIVE rstrip(_)
rstrip(text) ==
    IF text # <<>> /\ text[Len(text)] \in Whitespace
    THEN rstrip(SubSeq(text, 1, Len(text) - 1))
    ELSE text

\* str.strip()
strip(text) == rstrip(lstrip(text))

\* Offsets of the host's local time from UTC, in hours.
TZOffsets == {0, 9}

\* The wall clock advances in steps of this many hours.
TickHours == 8

(* --------------------- the calendar (datetime.date) -------------------- *)

\* datetime's own leap-year rule, used by its date arithmetic.
PyIsLeap(y) == y % 4 = 0 /\ (y % 100 # 0 \/ y % 400 = 0)

DaysInMonth(y, m) ==
    IF m = 2 THEN (IF PyIsLeap(y) THEN 29 ELSE 28)
    ELSE IF m \in {4, 6, 9, 11} THEN 30 ELSE 31

RECURSIVE DaysBeforeMonth(_, _)
DaysBeforeMonth(y, m) ==
    IF m = 1 THEN 0 ELSE DaysBeforeMonth(y, m - 1) + DaysInMonth(y, m - 1)

\* Days before January 1st of year y (date.toordinal of that day, minus 1).
DaysBeforeYear(y) ==
    (y - 1) * 365 + ((y - 1) \div 4) - ((y - 1) \div 100) + ((y - 1) \div 400)

\* date(y, m, d).toordinal()
ToOrdinal(ymd) ==
    DaysBeforeYear(ymd[1]) + DaysBeforeMonth(ymd[1], ymd[2]) + ymd[3]

\* The day of the month in the place of the day of the year.
tm_yday_day_of_month(ymd) == ymd[3]

\* date(y, m, d).timetuple().tm_yday
tm_yday(ymd) == DaysBeforeMonth(ymd[1], ymd[2]) + ymd[3]

\* date.fromordinal(n), as the triple that strftime("%Y-%m-%d") prints.
FromOrdinal(n) ==
    LET y == CHOOSE yy \in (n \div 366)..((n \div 365) + 1) :
                 DaysBeforeYear(yy) < n /\ n <= DaysBeforeYear(yy + 1)
        doy == n - DaysBeforeYear(y)
        m == CHOOSE mm \in 1..12 :
                 /\ DaysBeforeMonth(y, mm) < doy
                 /\ doy <= DaysBeforeMonth(y, mm) + DaysInMonth(y, mm)
    IN  <<y, m, doy - DaysBeforeMonth(y, m)>>

(* ------------------------------ the clock ------------------------------ *)

VARIABLES
    now,      \* the wall clock: hours since midnight UTC before ordinal day 1
    tz,       \* the host's offset from UTC, in hours
    ticks     \* how often the clock has advanced

\* SQLite's CURRENT_TIMESTAMP: the UTC date and time, 'YYYY-MM-DD HH:MM:SS'.
CURRENT_TIMESTAMP(instant) ==
    [date |-> FromOrdinal((instant \div 24) + 1), time |-> instant % 24]

\* date.today().strftime("%Y-%m-%d"): the date of the host's local time.
today_str(instant, offset) == FromOrdinal(((instant + offset) \div 24) + 1)

\* The instant of hour h (UTC) of the day ymd.
InstantOf(ymd, h) == (ToOrdinal(ymd) - 1) * 24 + h

(* --------------------------- the message store ------------------------- *)

VARIABLES
    rows,     \* table messages: a set of rows [id, sender, message, timestamp]
    seq,      \* sqlite_sequence: the largest id AUTOINCREMENT has assigned
    sess,     \* per session: the store call in flight and what it fetched
    last,     \* the store call that completed last and the message it showed
              \* (st.success, st.error), until the next call begins
    inserted, \* history: the id and sender of every INSERT, in the order made
    deleted   \* history: the id of every row a delete_message removed, and
              \* the username the call was made with

VARIABLES
    excel,    \* QUESTIONS_FILE: the questions of all sheets, in reading order
    file,     \* MAPPING_FILE: absent, opened for writing, or fully written
    mp        \* per session: where its load_question_mapping call stands

VARIABLES
    ui        \* per session: st.session_state (username, editing_message_id,
              \* show_question_list) and where its script run stands

storeVars == <<rows, seq, sess, last, inserted, deleted>>
uiVars == <<ui>>
clockVars == <<now, tz, ticks>>
mapVars == <<excel, file, mp>>

\* The dates a caller may pass as chat_date_str.
ChatDates == {<<2025, 2, 28>>}

\* The dates a caller may pass as selected_date.
ViewDates == {<<2025, 2, 28>>, <<2025, 3, 1>>, <<2025, 3, 2>>}

\* The message ids a caller may pass.
Ids == 1..MaxMsgs

\* A session before its first script run: no username chosen, no message
\* being edited (None, written 0 as no message has this id), the chat
\* shown, no store call pending.
NoRun == [username |-> None, editing_message_id |-> 0, show_question_list |-> FALSE,
          pc |-> "idle", msg_id |-> 0, body |-> None]

NoCall == [pc |-> "idle", id |-> 0, user |-> None, body |-> None, result |-> None]
NoLast == [op |-> "none", id |-> 0, user |-> None, body |-> None,
           date |-> NoDate, outcome |-> "none"]

RowIds(table) == {r.id : r \in table}

Max(S) == CHOOSE x \in S : \A y \in S : y <= x

\* A plain INTEGER PRIMARY KEY: one more than the largest id in the table.
NextIdNoAutoincrement(table, sequence) == Max(RowIds(table) \cup {0}) + 1

\* id INTEGER PRIMARY KEY AUTOINCREMENT: one more than the largest id ever
\* assigned, which sqlite_sequence remembers across deletes.
NextId(table, sequence) == Max(RowIds(table) \cup {sequence}) + 1

\* DATE(timestamp): the date part of a stored timestamp.
DATE(timestamp) == timestamp.date

\* Every insert takes the column default.
SentTimestampDefault(chat_date_str, instant) == CURRENT_TIMESTAMP(instant)

\* The timestamp send_message stores: "<chat_date_str> 00:00:00" when a date
\* is given, else the column default CURRENT_TIMESTAMP.
SentTimestamp(chat_date_str, instant) ==
    IF chat_date_str # NoDate
    THEN [date |-> chat_date_str, time |-> 0]
    ELSE CURRENT_TIMESTAMP(instant)

\* send_message(sender, message, chat_date_str): one INSERT and its commit.
send_message(p, sender, message, chat_date_str) ==
    /\ sess[p].pc = "idle"
    /\ seq < MaxMsgs
    /\ LET id == NextId(rows, seq)
       IN  /\ rows' = rows \cup {[id |-> id, sender |-> sender, message |-> message,
                                  timestamp |-> SentTimestamp(chat_date_str, now)]}
           /\ seq' = id
           /\ inserted' = Append(inserted, [id |-> id, sender |-> sender])
           /\ last' = [op |-> "send", id |-> id, user |-> sender, body |-> message,
                       date |-> chat_date_str, outcome |-> "sent"]
    /\ UNCHANGED <<sess, deleted, clockVars, mapVars>>

\* SELECT sender FROM messages WHERE id = ?, then fetchone().
SelectSender(table, message_id) ==
    IF message_id \in RowIds(table)
    THEN (CHOOSE r \in table : r.id = message_id).sender
    ELSE None

\* UPDATE messages SET message = ? without the WHERE clause.
UpdateMessageNoWhere(table, message_id, new_message) ==
    {[r EXCEPT !.message = new_message] : r \in table}

\* UPDATE messages SET message = ? WHERE id = ? (no row matches: no change).
UpdateMessage(table, message_id, new_message) ==
    {IF r.id = message_id THEN [r EXCEPT !.message = new_message] ELSE r : r \in table}

\* DELETE FROM messages WHERE id = ?
DeleteRow(table, message_id) == {r \in table : r.id # message_id}

\* The branch taken for every row found, whoever sent it.
IsOwnerAnyRow(result, username) == result # None

\* The branch taken for the rows of the other user.
IsOwnerNegated(result, username) == result # None /\ result # username

\* "if result and result[0] == username"
IsOwner(result, username) == result # None /\ result = username

\* edit_message, first statement: look the sender of message_id up.
edit_select(p, message_id, username, new_message) ==
    /\ sess[p].pc = "idle"
    /\ sess' = [sess EXCEPT ![p] = [pc |-> "edit", id |-> message_id, user |-> username,
                                    body |-> new_message,
                                    result |-> SelectSender(rows, message_id)]]
    /\ last' = NoLast
    /\ UNCHANGED <<rows, seq, inserted, deleted, clockVars, mapVars>>

\* edit_message, the branch on the fetched sender: UPDATE and commit, or refuse.
edit_message(p) ==
    /\ sess[p].pc = "edit"
    /\ IF IsOwner(sess[p].result, sess[p].user)
       THEN /\ rows' = UpdateMessage(rows, sess[p].id, sess[p].body)
            /\ last' = [op |-> "edit", id |-> sess[p].id, user |-> sess[p].user,
                        body |-> sess[p].body, date |-> NoDate,
                        outcome |-> "success"]
       ELSE /\ rows' = rows
            /\ last' = [op |-> "edit", id |-> sess[p].id, user |-> sess[p].user,
                        body |-> sess[p].body, date |-> NoDate,
                        outcome |-> "error"]
    /\ sess' = [sess EXCEPT ![p] = NoCall]
    /\ UNCHANGED <<seq, inserted, deleted, clockVars, mapVars>>

\* delete_message, first statement: look the sender of message_id up.
delete_select(p, message_id, username) ==
    /\ sess[p].pc = "idle"
    /\ sess' = [sess EXCEPT ![p] = [pc |-> "delete", id |-> message_id, user |-> username,
                                    body |-> None,
                                    result |-> SelectSender(rows, message_id)]]
    /\ last' = NoLast
    /\ UNCHANGED <<rows, seq, inserted, deleted, clockVars, mapVars>>

\* delete_message, the branch on the fetched sender: DELETE and commit, or refuse.
delete_message(p) ==
    /\ sess[p].pc = "delete"
    /\ IF IsOwner(sess[p].result, sess[p].user)
       THEN /\ rows' = DeleteRow(rows, sess[p].id)
            /\ deleted' = deleted \cup {[id |-> id, by |-> sess[p].user] :
                                          id \in RowIds(rows) \ RowIds(rows')}
            /\ last' = [op |-> "delete", id |-> sess[p].id, user |-> sess[p].user,
                        body |-> None, date |-> NoDate,
                        outcome |-> "success"]
       ELSE /\ rows' = rows
            /\ deleted' = deleted
            /\ last' = [op |-> "delete", id |-> sess[p].id, user |-> sess[p].user,
                        body |-> None, date |-> NoDate,
                        outcome |-> "error"]
    /\ sess' = [sess EXCEPT ![p] = NoCall]
    /\ UNCHANGED <<seq, inserted, clockVars, mapVars>>

\* The rows of table with id order descending (ORDER BY id DESC).
RECURSIVE OrderByIdDesc(_)
OrderByIdDesc(table) ==
    IF table = {} THEN <<>>
    ELSE LET r == CHOOSE x \in table : \A y \in table : x.id >= y.id
         IN  <<r>> \o OrderByIdDesc(table \ {r})

\* The rows of table with id order ascending (ORDER BY id ASC).
RECURSIVE OrderById(_)
OrderById(table) ==
    IF table = {} THEN <<>>
    ELSE LET r == CHOOSE x \in table : \A y \in table : x.id <= y.id
         IN  <<r>> \o OrderById(table \ {r})

\* The two SELECTs of get_messages: the rows WHERE DATE(timestamp) is the
\* selected date, or all rows when no date is selected, ORDER BY id ASC.
SelectMessages(table, selected_date) ==
    IF selected_date # NoDate
    THEN OrderById({r \in table : DATE(r.timestamp) = selected_date})
    ELSE OrderById(table)

\* get_messages(selected_date): what the query returns from the stored table.
get_messages(selected_date) == SelectMessages(rows, selected_date)

(* ----------------------- the date-question mapping --------------------- *)

\* The questions the source may hold, in the order the sheets give them.
AllQuestions == <<"q1", "q2", "q3", "q4">>

\* The contents the question source may have: the first n questions.
Pools == {SubSeq(AllQuestions, 1, n) : n \in 0..MaxPool}

\* An empty dict: the mapping with no date.
EmptyMapping == [d \in {} |-> ""]

NoFile == [state |-> "absent", mapping |-> EmptyMapping]

\* No load_question_mapping call made: nothing read, generated, shown (the
\* st.success or st.error of the call) or raised.
NoLoad == [pc |-> "idle", excel_read |-> "none", all_questions |-> <<>>,
           year |-> 0, days_in_year |-> 0, mapping |-> EmptyMapping,
           via |-> "none", shown |-> "none", raised |-> "none"]

\* The rule without its exception for the years divisible by 400.
is_leap_year_no_400(year) == year % 4 = 0 /\ year % 100 # 0

\* Every year divisible by 4 counts as a leap year.
is_leap_year_every_4(year) == year % 4 = 0

\* is_leap_year(year)
is_leap_year(year) == year % 4 = 0 /\ (year % 100 # 0 \/ year % 400 = 0)

\* random.shuffle(all_questions): every order of the list is a possible result.
Shuffles(questions) ==
    LET n == Len(questions)
        perms == {f \in [1..n -> 1..n] : \A i, j \in 1..n : f[i] = f[j] => i = j}
    IN  {[i \in 1..n |-> questions[f[i]]] : f \in perms}

\* "days_in_year = 366 if is_leap_year(date.today().year) else 365"
DaysInYear(year) == IF is_leap_year(year) THEN 366 ELSE 365

\* The loop of load_and_assign_questions: for each of the days_in_year days
\* from January 1st of today's year, the question at (tm_yday - 1) modulo the
\* number of questions (Python lists count from 0, sequences from 1).
AssignQuestions(all_questions, today) ==
    LET days_in_year == DaysInYear(today[1])
        january1 == ToOrdinal(<<today[1], 1, 1>>)
        dates == {FromOrdinal(january1 + n) : n \in 0..(days_in_year - 1)}
    IN  [date_str \in dates |->
            all_questions[((tm_yday(date_str) - 1) % Len(all_questions)) + 1]]

\* "if not os.path.exists(MAPPING_FILE)": always taken.
MappingFileMissingAlways(f) == TRUE

\* "if not os.path.exists(MAPPING_FILE)"
MappingFileMissing(f) == f.state = "absent"

\* load_question_mapping, the test for the file: on to generating or to reading.
load_question_mapping(p) ==
    /\ mp[p].pc \in {"idle", "returned", "raised"}
    /\ mp' = [mp EXCEPT ![p] = [NoLoad EXCEPT
                  !.pc = IF MappingFileMissing(file) THEN "generate" ELSE "read"]]
    /\ UNCHANGED <<excel, file, clockVars, storeVars, uiVars>>

\* The try block without its except branch: a failed read passes for a
\* source without questions.
ReadExcelNoExcept(source, readable) ==
    [raised |-> FALSE, all_questions |-> IF readable THEN source ELSE <<>>]

\* The try block of load_and_assign_questions: the questions of all sheets,
\* or the exception that pd.ExcelFile or parse raises on a source that is
\* missing or cannot be read.
ReadExcel(source, readable) ==
    IF readable
    THEN [raised |-> FALSE, all_questions |-> source]
    ELSE [raised |-> TRUE, all_questions |-> <<>>]

\* load_and_assign_questions up to the mapping: read the questions, shuffle
\* them, assign one to each day of today's year.  When reading the Excel
\* file raises, the except branch shows the error and returns {}, and
\* load_question_mapping shows "Failed to initialize date-question mapping."
\* and returns it.  With no question the modulo raises ZeroDivisionError,
\* which nothing catches.
load_and_assign_questions(p, readable) ==
    /\ mp[p].pc = "generate"
    /\ LET read == ReadExcel(excel, readable)
           began == [NoLoad EXCEPT
                        !.excel_read = IF readable THEN "ok" ELSE "failed"]
           year == today_str(now, tz)[1]
       IN  IF read.raised
           THEN mp' = [mp EXCEPT ![p] = [began EXCEPT !.pc = "returned",
                                                      !.shown = "failed"]]
           ELSE IF read.all_questions = <<>>
           THEN mp' = [mp EXCEPT ![p] = [began EXCEPT !.pc = "raised",
                            !.year = year,
                            !.days_in_year = DaysInYear(year),
                            !.raised = "ZeroDivisionError"]]
           ELSE \E shuffled \in Shuffles(read.all_questions) :
                   mp' = [mp EXCEPT ![p] = [began EXCEPT !.pc = "open",
                              !.all_questions = shuffled,
                              !.year = year,
                              !.days_in_year = DaysInYear(year),
                              !.mapping = AssignQuestions(shuffled, today_str(now, tz)),
                              !.via = "generated"]]
    /\ UNCHANGED <<excel, file, clockVars, storeVars, uiVars>>

\* open(MAPPING_FILE, 'w'): the file is created, or emptied if it exists.
\* When the file cannot be opened for writing, open raises OSError, which
\* nothing catches, and the file is as it was.
open_mapping_file(p, writable) ==
    /\ mp[p].pc = "open"
    /\ IF writable
       THEN /\ file' = [state |-> "open", mapping |-> EmptyMapping]
            /\ mp' = [mp EXCEPT ![p].pc = "dump"]
       ELSE /\ file' = file
            /\ mp' = [mp EXCEPT ![p].pc = "raised", ![p].raised = "OSError"]
    /\ UNCHANGED <<excel, clockVars, storeVars, uiVars>>

\* json.dump(mapping, f), the end of the with block, and both returns, with
\* the st.success of load_question_mapping.  When a write fails, OSError is
\* raised out of both functions and the file is left without a whole JSON
\* document.
dump_mapping(p, writable) ==
    /\ mp[p].pc = "dump"
    /\ IF writable
       THEN /\ file' = [state |-> "written", mapping |-> mp[p].mapping]
            /\ mp' = [mp EXCEPT ![p].pc = "returned", ![p].shown = "initialized"]
       ELSE /\ file' = file
            /\ mp' = [mp EXCEPT ![p].pc = "raised", ![p].raised = "OSError"]
    /\ UNCHANGED <<excel, clockVars, storeVars, uiVars>>

\* The else branch of load_question_mapping: json.load of the file; a file
\* that does not hold a whole JSON document raises, and {} is returned.
read_mapping_file(p) ==
    /\ mp[p].pc = "read"
    /\ mp' = [mp EXCEPT ![p] = [NoLoad EXCEPT
                  !.pc = "returned",
                  !.mapping = IF file.state = "written" THEN file.mapping
                              ELSE EmptyMapping,
                  !.via = "loaded",
                  !.shown = IF file.state = "written" THEN "none" ELSE "load_error"]]
    /\ UNCHANGED <<excel, file, clockVars, storeVars, uiVars>>

\* The question source is replaced by another.
ChangeQuestions ==
    /\ \E pool \in Pools \ {excel} : excel' = pool
    /\ UNCHANGED <<file, mp, clockVars, storeVars, uiVars>>

\* One step of a load_question_mapping call of session p.
MapStep(p) ==
    \/ load_question_mapping(p)
    \/ \E readable \in BOOLEAN : load_and_assign_questions(p, readable)
    \/ \E writable \in BOOLEAN : open_mapping_file(p, writable)
    \/ \E writable \in BOOLEAN : dump_mapping(p, writable)
    \/ read_mapping_file(p)

\* The years on whose December 31st, 20:00 UTC, a behaviour may start.
StartYears == {1899, 1999, 2023, 2024}

\* No mapping file yet; any question source; the store is not used.
InitMapping(years, offsets, pools) ==
    /\ now \in {InstantOf(<<y, 12, 31>>, 20) : y \in years}
    /\ tz \in offsets
    /\ ticks = 0
    /\ rows = {}
    /\ seq = 0
    /\ sess = [p \in Procs |-> NoCall]
    /\ last = NoLast
    /\ inserted = <<>>
    /\ deleted = {}
    /\ excel \in pools
    /\ file = NoFile
    /\ mp = [p \in Procs |-> NoLoad]
    /\ ui = [p \in Procs |-> NoRun]

\* The wall clock advances.
Tick ==
    /\ ticks < MaxTicks
    /\ now' = now + TickHours
    /\ ticks' = ticks + 1
    /\ UNCHANGED <<tz, storeVars, mapVars, uiVars>>

vars == <<now, tz, ticks, rows, seq, sess, last, inserted, deleted, excel, file, mp,
          ui>>

\* No mapping file, no questions, no load_question_mapping call in flight.
InitNoMapping ==
    /\ excel = <<>>
    /\ file = NoFile
    /\ mp = [p \in Procs |-> NoLoad]

\* The store is empty; the clock shows 20:00 UTC of 2025-02-28.
InitZone(offsets) ==
    /\ now = InstantOf(<<2025, 2, 28>>, 20)
    /\ tz \in offsets
    /\ InitNoMapping
    /\ ticks = 0
    /\ rows = {}
    /\ seq = 0
    /\ sess = [p \in Procs |-> NoCall]
    /\ last = NoLast
    /\ inserted = <<>>
    /\ deleted = {}
    /\ ui = [p \in Procs |-> NoRun]

\* A send for the current instant.
SendNow(p) ==
    /\ \E sender \in Users, message \in Bodies :
          send_message(p, sender, message, NoDate)
    /\ UNCHANGED uiVars

\* A send for a chosen date.
SendDated(p) ==
    /\ \E sender \in Users, message \in Bodies, d \in ChatDates :
          send_message(p, sender, message, d)
    /\ UNCHANGED uiVars

\* A send of any text, as a caller of the store may pass it.
SendText(p) ==
    /\ \E sender \in Users, text \in Texts :
          send_message(p, sender, Join(text), NoDate)
    /\ UNCHANGED uiVars

EditSelect(p) ==
    /\ \E message_id \in Ids, username \in Users, new_message \in Bodies :
          edit_select(p, message_id, username, new_message)
    /\ UNCHANGED uiVars

DeleteSelect(p) ==
    /\ \E message_id \in Ids, username \in Users :
          delete_select(p, message_id, username)
    /\ UNCHANGED uiVars

\* The branch of an edit_message call made by a caller of the store.
EditBranch(p) == edit_message(p) /\ UNCHANGED uiVars

\* The branch of a delete_message call made by a caller of the store.
DeleteBranch(p) == delete_message(p) /\ UNCHANGED uiVars

\* One step of a store call of session p, made by a caller of the store
\* that is not the page (the session state stays as it is).
StoreStep(p) ==
    \/ SendNow(p)
    \/ EditSelect(p)
    \/ EditBranch(p)
    \/ DeleteSelect(p)
    \/ DeleteBranch(p)

(* ------------------------------ the page ------------------------------- *)

\* A click or a form submit starts a run of main in the session it was made
\* in.  The run reads the session state, renders the page and, at the widget
\* that was used, acts.  A run is one action up to a call of delete_message
\* or edit_message, whose statements are the steps that follow.  The
\* st.experimental_rerun() after a handler changes no state: it restarts the
\* script or, where the function no longer exists, raises an AttributeError
\* that the except around it drops.

\* date <= date, as the date_input compares its bounds.
DateLeq(a, b) ==
    \/ a[1] < b[1]
    \/ a[1] = b[1] /\ a[2] < b[2]
    \/ a[1] = b[1] /\ a[2] = b[2] /\ a[3] <= b[3]

\* The dates st.date_input lets the user select: from date(2025, 2, 1) to
\* date.today().
SelectableDates ==
    {d \in ViewDates : DateLeq(<<2025, 2, 1>>, d) /\ DateLeq(d, today_str(now, tz))}

\* The controls are drawn for every message.
ShowsOwnControlsForAll(sender, username) == TRUE

\* "if sender == username": the branch that draws the edit form and the Edit
\* and Delete buttons of a message.
ShowsOwnControls(sender, username) == sender = username

\* The run of session p gets past load_question_mapping, whose file exists,
\* past the question list and past the identity selection, with no earlier
\* run of the session still in a call.
ChatPage(p) ==
    /\ ui[p].pc = "idle"
    /\ sess[p].pc = "idle"
    /\ ~MappingFileMissing(file)
    /\ ~ui[p].show_question_list
    /\ ui[p].username # None

\* The messages of the selected date that the run draws with their controls.
OwnMessages(p, selected_date_str) ==
    LET messages == get_messages(selected_date_str)
    IN  {messages[i] : i \in {j \in 1..Len(messages) :
                                 ShowsOwnControls(messages[j].sender, ui[p].username)}}

\* The "Question list" button.
click_question_list(p) ==
    /\ ui[p].pc = "idle"
    /\ ~MappingFileMissing(file)
    /\ ~ui[p].show_question_list
    /\ ui' = [ui EXCEPT ![p].show_question_list = TRUE]
    /\ UNCHANGED <<storeVars, clockVars, mapVars>>

\* The "Back" button of the question list.
click_back(p) ==
    /\ ui[p].pc = "idle"
    /\ ~MappingFileMissing(file)
    /\ ui[p].show_question_list
    /\ ui' = [ui EXCEPT ![p].show_question_list = FALSE]
    /\ UNCHANGED <<storeVars, clockVars, mapVars>>

\* "Enter Chat" with the identity chosen in the radio.
click_enter_chat(p, user) ==
    /\ ui[p].pc = "idle"
    /\ ~MappingFileMissing(file)
    /\ ~ui[p].show_question_list
    /\ ui[p].username = None
    /\ ui' = [ui EXCEPT ![p].username = user]
    /\ UNCHANGED <<storeVars, clockVars, mapVars>>

\* "Switch User": the username is dropped, editing_message_id is not.
click_switch_user(p) ==
    /\ ChatPage(p)
    /\ ui' = [ui EXCEPT ![p].username = None]
    /\ UNCHANGED <<storeVars, clockVars, mapVars>>

\* "Edit" of a drawn message.
click_edit(p, selected_date_str, msg_id) ==
    /\ ChatPage(p)
    /\ msg_id \in RowIds(OwnMessages(p, selected_date_str))
    /\ ui' = [ui EXCEPT ![p].editing_message_id = msg_id]
    /\ UNCHANGED <<storeVars, clockVars, mapVars>>

\* "Submit Edit" in the edit form of the message being edited: with a text
\* that is not blank the run goes on to call
\* edit_message(msg_id, username, new_text.strip()); a blank text is dropped.
click_submit_edit(p, selected_date_str, msg_id, new_text) ==
    /\ ChatPage(p)
    /\ msg_id \in RowIds(OwnMessages(p, selected_date_str))
    /\ ui[p].editing_message_id = msg_id
    /\ IF strip(new_text) # <<>>
       THEN ui' = [ui EXCEPT ![p].pc = "edit_call", ![p].msg_id = msg_id,
                             ![p].body = Join(strip(new_text))]
       ELSE ui' = ui
    /\ UNCHANGED <<storeVars, clockVars, mapVars>>

\* The SELECT of the edit_message call of "Submit Edit".
submit_edit_select(p) ==
    /\ ui[p].pc = "edit_call"
    /\ edit_select(p, ui[p].msg_id, ui[p].username, ui[p].body)
    /\ ui' = [ui EXCEPT ![p].pc = "edit_branch"]

\* The branch of that edit_message call, and after its return
\* "st.session_state.editing_message_id = None".
submit_edit_return(p) ==
    /\ ui[p].pc = "edit_branch"
    /\ edit_message(p)
    /\ ui' = [ui EXCEPT ![p] = [NoRun EXCEPT !.username = ui[p].username]]

\* "Delete" of a drawn message: the run goes on to call
\* delete_message(msg_id, username).
click_delete(p, selected_date_str, msg_id) ==
    /\ ChatPage(p)
    /\ msg_id \in RowIds(OwnMessages(p, selected_date_str))
    /\ ui' = [ui EXCEPT ![p].pc = "delete_call", ![p].msg_id = msg_id]
    /\ UNCHANGED <<storeVars, clockVars, mapVars>>

\* The SELECT of the delete_message call of "Delete".
click_delete_select(p) ==
    /\ ui[p].pc = "delete_call"
    /\ delete_select(p, ui[p].msg_id, ui[p].username)
    /\ ui' = [ui EXCEPT ![p].pc = "delete_branch"]

\* The branch of that delete_message call.
click_delete_return(p) ==
    /\ ui[p].pc = "delete_branch"
    /\ delete_message(p)
    /\ ui' = [ui EXCEPT ![p].pc = "idle", ![p].msg_id = 0]

\* "Send" of the message form: a text that is not blank is sent stripped,
\* with the selected date unless that is today's; a blank text is dropped.
click_send(p, selected_date_str, msg) ==
    /\ ChatPage(p)
    /\ IF strip(msg) # <<>>
       THEN IF selected_date_str # today_str(now, tz)
            THEN send_message(p, ui[p].username, Join(strip(msg)), selected_date_str)
            ELSE send_message(p, ui[p].username, Join(strip(msg)), NoDate)
       ELSE UNCHANGED <<storeVars, clockVars, mapVars>>
    /\ ui' = ui

\* One step of a run of main in session p.
MainStep(p) ==
    \/ click_question_list(p)
    \/ click_back(p)
    \/ \E user \in Users : click_enter_chat(p, user)
    \/ click_switch_user(p)
    \/ \E d \in SelectableDates, msg_id \in Ids : click_edit(p, d, msg_id)
    \/ \E d \in SelectableDates, msg_id \in Ids, new_text \in Texts :
           click_submit_edit(p, d, msg_id, new_text)
    \/ submit_edit_select(p)
    \/ submit_edit_return(p)
    \/ \E d \in SelectableDates, msg_id \in Ids : click_delete(p, d, msg_id)
    \/ click_delete_select(p)
    \/ click_delete_return(p)
    \/ \E d \in SelectableDates, msg \in Texts : click_send(p, d, msg)

\* The store is empty and the mapping file was written by an earlier run.
InitUI ==
    /\ now = InstantOf(<<2025, 2, 28>>, 20)
    /\ tz \in TZOffsets
    /\ ticks = 0
    /\ rows = {}
    /\ seq = 0
    /\ sess = [p \in Procs |-> NoCall]
    /\ last = NoLast
    /\ inserted = <<>>
    /\ deleted = {}
    /\ ui = [p \in Procs |-> NoRun]
    /\ excel = SubSeq(AllQuestions, 1, 1)
    /\ file = [state |-> "written",
               mapping |-> AssignQuestions(excel, today_str(now, tz))]
    /\ mp = [p \in Procs |-> NoLoad]

\* The session whose calls run alone.
Caller == CHOOSE p \in Procs : \A q \in Procs : p <= q

\* One session uses the page, under either identity in turn.
NextUI == MainStep(Caller)

\* Sessions call the store concurrently.
Next == \E p \in Procs : StoreStep(p)

\* One session makes its store calls one after the other, for any user and
\* any date, while the clock runs.
NextSeq ==
    \/ Tick
    \/ StoreStep(Caller)
    \/ SendDated(Caller)

\* One caller passes the store any text as a body.
NextApi ==
    \/ StoreStep(Caller)
    \/ SendText(Caller)

\* The host keeps UTC.
Init == InitZone({0})

\* The host keeps any of the time zones.
InitSeq == InitZone(TZOffsets)

\* Sessions call load_question_mapping concurrently.
NextMap == \E p \in Procs : MapStep(p)

\* One session calls load_question_mapping again and again, while the clock
\* runs and the question source changes.
NextMapSeq ==
    \/ Tick
    \/ ChangeQuestions
    \/ MapStep(Caller)

\* One session calls load_question_mapping again and again.
NextGen == MapStep(Caller)

InitMap == InitMapping({2024}, {0}, Pools)

InitMapSeq == InitMapping(StartYears, TZOffsets, Pools)

\* Any year of the range; the source holds one question.
InitYears == InitMapping(FirstYear..LastYear, {0}, {SubSeq(AllQuestions, 1, 1)})

Spec == Init /\ [][Next]_vars

SpecMap == InitMap /\ [][NextMap]_vars

SpecMapSeq == InitMapSeq /\ [][NextMapSeq]_vars

SpecGen == InitMapSeq /\ [][NextGen]_vars

SpecYears == InitYears /\ [][NextGen]_vars

SpecSeq == InitSeq /\ [][NextSeq]_vars

SpecApi == Init /\ [][NextApi]_vars

SpecUI == InitUI /\ [][NextUI]_vars

(* ------------------------------ history -------------------------------- *)

\* The sender a message id was inserted with.
InsertedSender(id) ==
    inserted[CHOOSE i \in 1..Len(inserted) : inserted[i].id = id].sender

InsertedIds == {inserted[i].id : i \in 1..Len(inserted)}

DeletedIds == {x.id : x \in deleted}

\* The row of table with this id.
RowOf(table, id) == CHOOSE r \in table : r.id = id

\* Session p completes its edit_message call in this step.
EditReturns(p) == sess[p].pc = "edit" /\ sess'[p].pc = "idle"

\* Session p completes its delete_message call in this step.
DeleteReturns(p) == sess[p].pc = "delete" /\ sess'[p].pc = "idle"

\* The ids of the rows get_messages returns for a date (or for all dates).
ListedIds(selected_date) ==
    LET listed == get_messages(selected_date)
    IN  {listed[i].id : i \in 1..Len(listed)}

(* ------------------------------- claims -------------------------------- *)

\* C1: an edit_message of a stored message K by a requester other than the
\* sender K was inserted with shows the error and leaves the table as it
\* was; an edit_message by that sender shows success, and get_messages for
\* K's date then returns K with the new body.
C1_EditOnlyByOwner ==
    [][\A p \in Procs :
         (EditReturns(p) /\ sess[p].id \in RowIds(rows)) =>
            LET K == sess[p].id
                d == DATE(RowOf(rows, K).timestamp)
            IN  IF sess[p].user # InsertedSender(K)
                THEN last'.outcome = "error" /\ rows' = rows
                ELSE /\ last'.outcome = "success"
                     /\ \E i \in 1..Len(SelectMessages(rows', d)) :
                           /\ SelectMessages(rows', d)[i].id = K
                           /\ SelectMessages(rows', d)[i].message = sess[p].body]_vars

\* C1 witness: an edit by the other user was refused and the row keeps a
\* body that is not the one the refused edit carried.
C1_Witness ==
    /\ last.op = "edit"
    /\ last.outcome = "error"
    /\ \E r \in rows : r.id = last.id /\ r.sender # last.user /\ r.message # last.body

\* C2: the table holds exactly the inserted rows that no delete_message has
\* removed, so a row leaves it only through a delete_message and never comes
\* back; every removal was made by a call whose username is the sender the
\* row was inserted with; a delete_message by another username shows the
\* error and leaves the row in place; after a delete_message that shows
\* success the row is gone; and get_messages, for a date or for all dates,
\* returns no row with a deleted id.
C2_DeleteOnlyByOwnerForGood ==
    /\ RowIds(rows) = InsertedIds \ DeletedIds
    /\ \A x \in deleted : x.by = InsertedSender(x.id)
    /\ (last.op = "delete" /\ last.id \in InsertedIds
           /\ last.user # InsertedSender(last.id)) =>
          /\ last.outcome = "error"
          /\ last.id \notin DeletedIds => last.id \in RowIds(rows)
    /\ (last.op = "delete" /\ last.outcome = "success") => last.id \notin RowIds(rows)
    /\ \A d \in ViewDates \cup {NoDate} : ListedIds(d) \cap DeletedIds = {}

\* C2 witness: a message was deleted by its sender, a later insert was made,
\* and the deleted id is not in the table.
C2_Witness ==
    /\ last.op = "send"
    /\ deleted # {}
    /\ DeletedIds \cap RowIds(rows) = {}
    /\ \E id \in DeletedIds : id < last.id

\* C3: the ownership check and the write of a call are one atomic unit: while
\* a session is between its SELECT and its write, no other session changes
\* or deletes the row it checked, and an edit_message that shows success has
\* updated a row that is in the table.
C3_CheckAndWriteAtomic ==
    [][\A p \in Procs :
         /\ (sess[p].pc \in {"edit", "delete"} /\ sess'[p] = sess[p]) =>
               \A r \in rows : r.id = sess[p].id => r \in rows'
         /\ (EditReturns(p) /\ last'.outcome = "success") =>
               sess[p].id \in RowIds(rows')]_vars

\* C4: the ids in the table are unique, every INSERT got an id greater than
\* all ids assigned before it (so no id, deleted or not, is assigned twice),
\* and every row carries an assigned id.
C4_IdsUniqueAndIncreasing ==
    /\ \A r1, r2 \in rows : r1.id = r2.id => r1 = r2
    /\ \A i, j \in 1..Len(inserted) : i < j => inserted[i].id < inserted[j].id
    /\ RowIds(rows) \subseteq InsertedIds
    /\ DeletedIds \subseteq InsertedIds

\* C4 witness: the only message was deleted and another was inserted since.
C4_Witness ==
    /\ last.op = "send"
    /\ deleted # {}
    /\ \A r \in rows : r.id = last.id
    /\ \A id \in DeletedIds : id < last.id

\* The place of an id in the order of the inserts.
InsertedAt(id) == CHOOSE i \in 1..Len(inserted) : inserted[i].id = id

\* An INSERT is made in this step.
Inserts == Len(inserted') = Len(inserted) + 1

\* C8: after a send_message without a date, get_messages for the caller's
\* current date (date.today() of the host) returns the new message exactly
\* once, with the sender and the body that were sent and an id no earlier
\* insert had.
C8_SendListedUnderToday ==
    [][(Inserts /\ last'.date = NoDate) =>
          LET listed == SelectMessages(rows', today_str(now', tz'))
              hits == {i \in 1..Len(listed) : listed[i].id = last'.id}
          IN  /\ last'.id \notin InsertedIds
              /\ Cardinality(hits) = 1
              /\ \A i \in hits : /\ listed[i].sender = last'.user
                                 /\ listed[i].message = last'.body]_vars

\* C9: for every date, get_messages returns exactly the stored rows whose
\* timestamp has that date, each once, in strictly ascending id order, which
\* is the order the rows were inserted in.
C9_ListForDate ==
    \A d \in ViewDates :
        LET listed == get_messages(d)
        IN  /\ {listed[i] : i \in 1..Len(listed)} = {r \in rows : r.timestamp.date = d}
            /\ Len(listed) = Cardinality({r \in rows : r.timestamp.date = d})
            /\ \A i, j \in 1..Len(listed) :
                  i < j => /\ listed[i].id < listed[j].id
                           /\ InsertedAt(listed[i].id) < InsertedAt(listed[j].id)

\* C9 witness: a date lists two rows in id order although the later row
\* carries the earlier time of day, while a third date lists nothing.
C9_Witness ==
    \E d \in ViewDates :
        /\ Len(get_messages(d)) = 2
        /\ get_messages(d)[1].id < get_messages(d)[2].id
        /\ get_messages(d)[1].timestamp.time > get_messages(d)[2].timestamp.time
        /\ \E e \in ViewDates : get_messages(e) = <<>>

\* C10: after a send_message with a date, the new row's timestamp is
\* midnight of that date, and get_messages returns the row for that date and
\* for no other date.
C10_ExplicitDateAtMidnight ==
    (last.op = "send" /\ last.date # NoDate) =>
       /\ \E r \in rows : /\ r.id = last.id
                          /\ r.timestamp = [date |-> last.date, time |-> 0]
       /\ \A d \in ViewDates : (last.id \in ListedIds(d)) <=> (d = last.date)

\* C10 witness: a message was sent for a date that is neither the host's
\* current date nor the current UTC date, and is listed under that date.
C10_Witness ==
    /\ last.op = "send"
    /\ last.date # NoDate
    /\ last.date # today_str(now, tz)
    /\ last.date # CURRENT_TIMESTAMP(now).date
    /\ last.id \in ListedIds(last.date)

\* Session p returns from load_question_mapping in this step.
LoadReturns(p) == mp[p].pc # "returned" /\ mp'[p].pc = "returned"

\* The days of year y by the Gregorian rule.
GregorianDays(y) == IF y % 4 = 0 /\ (y % 100 # 0 \/ y % 400 = 0) THEN 366 ELSE 365

\* The calendar dates of year y.
CalendarDates(y) ==
    {<<y, m, d>> : m \in 1..12, d \in 1..31} \
        ({<<y, m, 31>> : m \in {2, 4, 6, 9, 11}} \cup {<<y, 2, 30>>}
            \cup (IF GregorianDays(y) = 366 THEN {} ELSE {<<y, 2, 29>>}))

\* The questions a list holds.
QuestionsOf(questions) == {questions[i] : i \in 1..Len(questions)}

\* C5: a written mapping file is never changed again; a load_question_mapping
\* call that returns while the file is written returns exactly the file's
\* mapping; and a call goes on to generate only when no file exists --
\* whatever the question source and the year are by then.
C5_PersistedMappingIsKept ==
    [][/\ file.state = "written" => file' = file
       /\ \A p \in Procs :
             /\ (LoadReturns(p) /\ file.state = "written") =>
                    mp'[p].mapping = file.mapping
             /\ (mp[p].pc # "generate" /\ mp'[p].pc = "generate") =>
                    file.state = "absent"]_vars

\* C5 witness: a call has returned the written mapping although the question
\* source now holds other questions and the year is no longer the mapping's.
C5_Witness ==
    /\ file.state = "written"
    /\ mp[Caller].pc = "returned"
    /\ mp[Caller].via = "loaded"
    /\ mp[Caller].mapping = file.mapping
    /\ QuestionsOf(excel) # {file.mapping[d] : d \in DOMAIN file.mapping}
    /\ \A d \in DOMAIN file.mapping : d[1] # today_str(now, tz)[1]

\* C6: the mapping file is written by a single winner, never overwritten,
\* and when both sessions have returned from a first-time generation they
\* hold the same mapping, the one in the file.
C6_SingleWinner ==
    [][/\ file.state = "written" => file' = file
       /\ (\A p \in Procs : mp'[p].pc = "returned" /\ mp'[p].via = "generated") =>
             \A p \in Procs : /\ file'.state = "written"
                              /\ mp'[p].mapping = file'.mapping]_vars

C11_NotFoundIsReported ==
    [][\A p \in Procs :
         ((EditReturns(p) \/ DeleteReturns(p)) /\ sess[p].id \notin RowIds(rows)) =>
            /\ rows' = rows
            /\ last'.outcome \notin {"success", "error"}]_vars

\* C13: an edit_message that shows success replaces the body of the row K it
\* was called for and nothing else: K keeps its id, sender and timestamp and
\* every other row is as it was; and no step of any call changes the sender
\* or the timestamp a stored id carries.
C13_EditChangesOnlyBody ==
    [][/\ \A p \in Procs :
             (EditReturns(p) /\ last'.outcome = "success") =>
                \E r \in rows :
                    /\ r.id = sess[p].id
                    /\ rows' = (rows \ {r}) \cup {[r EXCEPT !.message = sess[p].body]}
       /\ \A r \in rows, s \in rows' :
             r.id = s.id => r.sender = s.sender /\ r.timestamp = s.timestamp]_vars

\* C13 witness: an edit has replaced the body of one of two stored rows, and
\* the other row, sent by the same user, carries another body.
C13_Witness ==
    /\ last.op = "edit"
    /\ last.outcome = "success"
    /\ \E r, s \in rows : /\ r.id = last.id
                           /\ r.message = last.body
                           /\ s.id # r.id
                           /\ s.sender = r.sender
                           /\ s.message # r.message

\* C19: with the SELECT and the write of concurrent edit_message and
\* delete_message calls interleaving freely with each other and with sends,
\* every call that went on to its UPDATE or DELETE was made with the username
\* the message was inserted with, every row removed was removed by such a
\* call, every sender a SELECT has fetched is the sender the id was inserted
\* with, and every stored row still carries that sender.
C19_NoWriteByNonOwner ==
    /\ (last.op \in {"edit", "delete"} /\ last.outcome = "success") =>
           /\ last.id \in InsertedIds
           /\ last.user = InsertedSender(last.id)
    /\ \A x \in deleted : x.id \in InsertedIds /\ x.by = InsertedSender(x.id)
    /\ \A p \in Procs :
          sess[p].result # None =>
             /\ sess[p].id \in InsertedIds
             /\ sess[p].result = InsertedSender(sess[p].id)
    /\ \A r \in rows : r.sender = InsertedSender(r.id)

\* C19 witness: the sender's edit of a message has gone through while the
\* other user's call on the same message is between its SELECT and its
\* branch.
C19_Witness ==
    /\ last.op = "edit"
    /\ last.outcome = "success"
    /\ \E q \in Procs : /\ sess[q].pc \in {"edit", "delete"}
                         /\ sess[q].id = last.id
                         /\ sess[q].result # None
                         /\ sess[q].user # last.user

\* The bodies that are empty or hold whitespace only.
BlankBodies == {Join(text) : text \in {t \in Texts : \A i \in 1..Len(t) : t[i] \in Whitespace}}

\* C12: a send_message call whose body is empty or whitespace only is
\* rejected by the store: it appends no row, consumes no id and does not
\* report the message as sent -- and so the table never holds a blank body.
C12_BlankBodyRejected ==
    [][/\ (last' # last /\ last'.op = "send" /\ last'.body \in BlankBodies) =>
             /\ rows' = rows
             /\ seq' = seq
             /\ inserted' = inserted
             /\ last'.outcome # "sent"
       /\ \A r \in rows' : r.message \notin BlankBodies]_vars

\* C14: a generation that finds no question in the source fails as an empty
\* pool: it produces no mapping and writes no file, and
\* load_question_mapping returns to its caller with the failure shown
\* instead of ending in an exception.
C14_EmptyPoolReported ==
    [][\A p \in Procs :
         (mp[p].pc = "generate" /\ excel = <<>> /\ mp'[p].excel_read = "ok") =>
            /\ mp'[p].pc = "returned"
            /\ mp'[p].shown = "failed"
            /\ mp'[p].mapping = EmptyMapping
            /\ file' = file
            /\ file.state = "absent"]_vars

\* C15: when reading the question source fails, load_question_mapping
\* returns the empty mapping with the failure shown and the mapping file
\* stays absent; and since nothing was written, the next call goes on to
\* generate again.
C15_SourceReadFailureAborts ==
    [][\A p \in Procs :
         /\ (mp[p].pc = "generate" /\ mp'[p].excel_read = "failed") =>
                /\ mp'[p].pc = "returned"
                /\ mp'[p].shown = "failed"
                /\ mp'[p].mapping = EmptyMapping
                /\ mp'[p].via # "generated"
                /\ file' = file
                /\ file.state = "absent"
         /\ (mp[p].pc = "returned" /\ mp[p].excel_read = "failed"
                /\ mp'[p] # mp[p]) =>
                /\ file.state = "absent"
                /\ mp'[p].pc = "generate"]_vars

\* C15 witness: a call has returned the empty mapping after a failed read,
\* no mapping file exists, and the source holds questions.
C15_Witness ==
    /\ mp[Caller].pc = "returned"
    /\ mp[Caller].excel_read = "failed"
    /\ mp[Caller].shown = "failed"
    /\ mp[Caller].mapping = EmptyMapping
    /\ file.state = "absent"
    /\ excel # <<>>

\* Session p leaves the writing of the mapping file in this step without the
\* file being written.
WriteFails(p) ==
    /\ mp[p].pc \in {"open", "dump"}
    /\ mp'[p].pc # "dump"
    /\ file'.state # "written"

\* C16: when writing the generated mapping to the file fails, the failure is
\* signalled as a persist error and load_question_mapping still returns the
\* generated mapping to its caller.
C16_PersistFailureReturnsMapping ==
    [][\A p \in Procs :
         WriteFails(p) =>
            /\ mp'[p].pc = "returned"
            /\ mp'[p].mapping = mp[p].mapping
            /\ mp'[p].shown = "persist_error"]_vars

\* The days of a common year before the first of each month.
CommonYearDaysBefore == <<0, 31, 59, 90, 120, 151, 181, 212, 243, 273, 304, 334>>

\* The days of year y before the first of month m.
DaysBefore(y, m) ==
    CommonYearDaysBefore[m] + (IF m > 2 /\ GregorianDays(y) = 366 THEN 1 ELSE 0)

\* The date of the n-th day of year y (January 1st is day 1).
DateOfDay(y, n) ==
    LET m == CHOOSE mm \in 1..12 :
                 /\ DaysBefore(y, mm) < n
                 /\ (mm = 12 \/ n <= DaysBefore(y, mm + 1))
    IN  <<y, m, n - DaysBefore(y, m)>>

\* C17: in a generated mapping, whose list of questions is shorter than the
\* year, day n of the year carries the question at place (n - 1) modulo the
\* length of the one shuffled list (a permutation: no question twice), and
\* so the question of day n is the question of day n + length wherever both
\* days lie in the year.
C17_CyclicReuse ==
    \A p \in Procs :
        (mp[p].via = "generated"
            /\ Len(mp[p].all_questions) < GregorianDays(mp[p].year)) =>
           LET pool == mp[p].all_questions
               y == mp[p].year
           IN  /\ Cardinality(QuestionsOf(pool)) = Len(pool)
               /\ \A n \in 1..GregorianDays(y) :
                     /\ mp[p].mapping[DateOfDay(y, n)] = pool[((n - 1) % Len(pool)) + 1]
                     /\ (n + Len(pool) <= GregorianDays(y)) =>
                            mp[p].mapping[DateOfDay(y, n + Len(pool))]
                               = mp[p].mapping[DateOfDay(y, n)]

\* C17 witness: a mapping of a leap year generated from a list of several
\* questions that the shuffle has reordered, in which the last day of
\* January and the first day of February carry different questions.
C17_Witness ==
    \E p \in Procs :
        /\ mp[p].via = "generated"
        /\ mp[p].pc = "returned"
        /\ Cardinality(DOMAIN mp[p].mapping) = 366
        /\ Len(mp[p].all_questions) > 1
        /\ mp[p].all_questions[1] # AllQuestions[1]
        /\ mp[p].mapping[<<mp[p].year, 1, 31>>] # mp[p].mapping[<<mp[p].year, 2, 1>>]

\* C18: the year length a generation uses is 366 exactly when the year is
\* divisible by 4 and not by 100, or divisible by 400, and 365 otherwise: 366
\* for 2024 and 2000, 365 for 2025 and 1900; it is the number of days from
\* January 1st of the year to January 1st of the next, and the number of
\* dates of the generated mapping.
C18_LeapYearRule ==
    \A p \in Procs :
        mp[p].days_in_year # 0 =>
           LET Y == mp[p].year
               days == mp[p].days_in_year
           IN  /\ days \in {365, 366}
               /\ (days = 366) <=> (Y % 4 = 0 /\ (Y % 100 # 0 \/ Y % 400 = 0))
               /\ Y \in {2024, 2000} => days = 366
               /\ Y \in {2025, 1900} => days = 365
               /\ days = ToOrdinal(<<Y + 1, 1, 1>>) - ToOrdinal(<<Y, 1, 1>>)
               /\ mp[p].via = "generated" => Cardinality(DOMAIN mp[p].mapping) = days

\* C18 witness: a mapping was generated for the year 2000, with 366 dates.
C18_Witness ==
    \E p \in Procs :
        /\ mp[p].pc = "returned"
        /\ mp[p].via = "generated"
        /\ mp[p].year = 2000
        /\ mp[p].days_in_year = 366
        /\ <<2000, 2, 29>> \in DOMAIN mp[p].mapping


\* The texts a strip() can return that are not blank.
TrimmedBodies ==
    {Join(text) : text \in {t \in Texts : /\ t # <<>>
                                           /\ t[1] \notin Whitespace
                                           /\ t[Len(t)] \notin Whitespace}}

\* The session whose page is used has a store call pending or under way.
CallOfPage(p) == ui[p].pc \in {"edit_call", "edit_branch", "delete_call", "delete_branch"}

\* C20: in every state reached through the page, a call of edit_message or
\* delete_message that the page has decided on or has under way is for a
\* message that was sent by the session's current username and by that
\* username, also while editing_message_id names a message selected under
\* the other identity; the form of the message being edited belongs to that
\* username's view alone; and every body the page stores, by Send or by
\* Submit Edit, is stripped and not empty.
C20_PageActsOnOwnMessages ==
    /\ \A p \in Procs :
          /\ CallOfPage(p) =>
                /\ ui[p].username # None
                /\ ui[p].msg_id \in InsertedIds
                /\ InsertedSender(ui[p].msg_id) = ui[p].username
          /\ ui[p].pc \in {"edit_call", "edit_branch"} =>
                /\ ui[p].body \in TrimmedBodies
                /\ ui[p].editing_message_id = ui[p].msg_id
          /\ (ui[p].pc = "edit_branch" /\ sess[p].pc = "edit") =>
                /\ sess[p].id = ui[p].msg_id
                /\ sess[p].user = ui[p].username
                /\ sess[p].body = ui[p].body
          /\ (ui[p].pc = "delete_branch" /\ sess[p].pc = "delete") =>
                /\ sess[p].id = ui[p].msg_id
                /\ sess[p].user = ui[p].username
          /\ sess[p].pc \in {"edit", "delete"} => CallOfPage(p)
    /\ last.op \in {"edit", "delete"} =>
          /\ last.id \in InsertedIds
          /\ last.user = InsertedSender(last.id)
    /\ last.op = "edit" => last.body \in TrimmedBodies
    /\ \A r \in rows : r.message \in TrimmedBodies

\* A session deletes or edits a message of its username while its
\* editing_message_id still names a stored message of the other user, which
\* it selected before "Switch User".
C20_Witness ==
    \E p \in Procs :
        /\ sess[p].pc \in {"edit", "delete"}
        /\ ui[p].editing_message_id \in RowIds(rows)
        /\ InsertedSender(ui[p].editing_message_id) # ui[p].username
        /\ InsertedSender(sess[p].id) = ui[p].username
        /\ sess[p].id # ui[p].editing_message_id

====
